---- MODULE Spec2Model ----
(***************************************************************************)
(* Model of the metro population pipeline:                                 *)
(*   scrape_metro_population.py  (clean_number, scrape_metro_data,         *)
(*                                interpolate_annual_data, main)           *)
(*   add_2024_data.py            (merge of the 2021..2024 rows into the    *)
(*                                CSV written by main)                     *)
(* A table (DataFrame) is a sequence of rows [Metro, Year, Population].    *)
(***************************************************************************)
EXTENDS Integers, Sequences, FiniteSets, TLC

(***************************************************************************)
(* IEEE-754 binary64 arithmetic, as Python/numpy evaluate                  *)
(*   annual_increment = pop_diff / years_diff                              *)
(*   int(start_pop + (annual_increment * year_offset))                     *)
(* A non-negative float is held in fixed point as NumLimbs limbs of        *)
(* LimbBits bits, least significant limb first; the lowest FracLimbs limbs *)
(* are the fraction.  Every operation is computed exactly and then rounded *)
(* to MantBits significant bits, ties to even (Round53).  The format holds *)
(* integers below 2^31 and quotients by a divisor below 2^14 exactly up to *)
(* the rounding bit.                                                       *)
(***************************************************************************)
MantBits == 53
LimbBits == 13
FracLimbs == 6
NumLimbs == 9
Base == 2^LimbBits

\* propagate the carries (or borrows) of the limbs y[j..NumLimbs], carry-in c
RECURSIVE CarryFrom(_, _, _)
CarryFrom(y, j, c) ==
    IF j > NumLimbs THEN <<>>
    ELSE <<(y[j] + c) % Base>> \o CarryFrom(y, j + 1, (y[j] + c) \div Base)

Carry(y) == CarryFrom(y, 1, 0)

\* float(a) for an integer 0 <= a < 2^31
FromInt(a) ==
    [j \in 1..NumLimbs |->
        IF j <= FracLimbs THEN 0
        ELSE IF j = FracLimbs + 1 THEN a % Base
        ELSE IF j = FracLimbs + 2 THEN (a \div Base) % Base
        ELSE a \div (Base * Base)]

\* bit p (0 = least significant) of x
Bit(x, p) == (x[(p \div LimbBits) + 1] \div 2^(p % LimbBits)) % 2

\* position of the most significant set bit of x, -1 for zero
TopBit(x) ==
    IF \A j \in 1..NumLimbs : x[j] = 0 THEN -1
    ELSE LET jt == CHOOSE j \in 1..NumLimbs :
                        x[j] # 0 /\ \A h \in (j + 1)..NumLimbs : x[h] = 0
             e  == CHOOSE b \in 1..LimbBits : 2^(b - 1) <= x[jt] /\ x[jt] < 2^b
         IN  LimbBits * (jt - 1) + e - 1

\* round-to-nearest, ties-to-even, to MantBits significant bits
Round53(x) ==
    LET t == TopBit(x) - (MantBits - 1)
    IN  IF t <= 0 THEN x
        ELSE LET guard  == Bit(x, t - 1) = 1
                 sticky == \E p \in 0..(t - 2) : Bit(x, p) = 1
                 up     == guard /\ (sticky \/ Bit(x, t) = 1)
                 jt     == (t \div LimbBits) + 1
                 kept   == [j \in 1..NumLimbs |->
                              IF j < jt THEN 0
                              ELSE IF j = jt
                                   THEN x[j] - (x[j] % 2^(t % LimbBits))
                                        + (IF up THEN 2^(t % LimbBits) ELSE 0)
                                   ELSE x[j]]
             IN  Carry(kept)

\* the FracLimbs fraction limbs of r / n, most significant first, then a
\* limb that is 1 when the quotient has further non-zero bits
RECURSIVE DivLimbs(_, _, _)
DivLimbs(r, n, j) ==
    IF j = 0 THEN <<IF r = 0 THEN 0 ELSE 1>>
    ELSE <<(r * Base) \div n>> \o DivLimbs((r * Base) % n, n, j - 1)

\* float(d) / float(n), d >= 0, n > 0
FDiv(d, n) ==
    LET q   == DivLimbs(d % n, n, FracLimbs)
        int == FromInt(d \div n)
    IN  Round53([j \in 1..NumLimbs |->
                    IF j > FracLimbs THEN int[j]
                    ELSE IF j = 1 /\ q[FracLimbs + 1] = 1 /\ q[FracLimbs] % 2 = 0
                         THEN q[FracLimbs] + 1
                         ELSE q[FracLimbs + 1 - j]])

\* x * float(k), k >= 0
FMul(x, k) == Round53(Carry([j \in 1..NumLimbs |-> x[j] * k]))

\* float(a) + x  and  float(a) - x  (a >= x), a a non-negative integer
FAdd(a, x) == Round53(Carry([j \in 1..NumLimbs |-> FromInt(a)[j] + x[j]]))

FSub(a, x) == Round53(Carry([j \in 1..NumLimbs |-> FromInt(a)[j] - x[j]]))

\* int(x): truncation toward zero
FInt(x) == x[FracLimbs + 1] + Base * x[FracLimbs + 2] + Base * Base * x[FracLimbs + 3]

\* variant: the offset counted from 1, so a census year is not reproduced
InterpolatedPopulationShifted(start_pop, end_pop, years_diff, year_offset) ==
    IF end_pop >= start_pop
    THEN FInt(FAdd(start_pop, FMul(FDiv(end_pop - start_pop, years_diff), year_offset + 1)))
    ELSE FInt(FSub(start_pop, FMul(FDiv(start_pop - end_pop, years_diff), year_offset + 1)))

\* int(start_pop + ((end_pop - start_pop) / years_diff) * year_offset)
InterpolatedPopulation(start_pop, end_pop, years_diff, year_offset) ==
    IF end_pop >= start_pop
    THEN FInt(FAdd(start_pop, FMul(FDiv(end_pop - start_pop, years_diff), year_offset)))
    ELSE FInt(FSub(start_pop, FMul(FDiv(start_pop - end_pop, years_diff), year_offset)))


(***************************************************************************)
(* Configuration and constants of the two scripts                          *)
(***************************************************************************)
\* the names of the METROS list, in list order
AllMetros ==
    <<"Atlanta", "Houston", "Dallas", "Miami", "Charlotte",
      "Washington DC", "Phoenix", "Philadelphia">>

\* the model runs main() on the first NumMetros entries of the list
NumMetros == 3
METROS == SubSeq(AllMetros, 1, NumMetros)

INTERPOLATE == TRUE

\* combined_df[combined_df['Year'] >= 1980]
MinYear == 1980

\* add_2024_data.py: df[df['Year'] <= 2020], year = 2020 + year_offset
CutoffYear == 2020
BaseYear == 2020
FinalYear == 2024
IncrementYears == 4

pop_2020 ==
    << <<"Dallas", 7637387>>, <<"Houston", 7122240>>,
       <<"Washington DC", 6385162>>, <<"Philadelphia", 6245051>>,
       <<"Miami", 6138333>>, <<"Atlanta", 6089815>>,
       <<"Phoenix", 4845832>>, <<"Charlotte", 2660329>> >>

pop_2024 ==
    ("Atlanta" :> 6409047) @@ ("Charlotte" :> 2883370) @@ ("Dallas" :> 8344032)
    @@ ("Houston" :> 7796182) @@ ("Miami" :> 6457988)
    @@ ("Philadelphia" :> 6330422) @@ ("Phoenix" :> 5186958)
    @@ ("Washington DC" :> 6437907)

\* clean_number's None, and NaN in a parsed column
None == -1

(***************************************************************************)
(* Inputs of the model                                                     *)
(***************************************************************************)
\* census frames handed to interpolate_annual_data on its own: at most
\* MaxObs rows over these metros, years and populations
MaxObs == 3
YearSet == {1980, 2020, 2024}
PopSet == {0, 100, 500}

\* census series that the scraped pages of main() carry, as <<year, pop>>
\* in page order (a page need not list its years in order)
SeriesCatalogue ==
    { << <<1978, 100>>, <<1982, 500>> >>,
      << <<2021, 1500>>, <<2019, 500>> >>,
      << <<1980, 0>> >>,
      << <<1975, 100>>, <<1977, 0>> >>,
      << <<2018, 500>>, <<2020, 100>>, <<2022, 500>> >> }

\* existing CSV tables handed to add_2024_data.py on its own: at most MaxRows
\* rows over these metros, years and populations, in any order
MaxRows == 3
MergeMetros == {"Atlanta", "Boston"}
MergeYears == {2019, 2020, 2021}
MergePops == {2, 3}

\* add_2024_data.py is run at most MaxRuns times in a row
MaxRuns == 2

\* evaluation cache of InterpolatedPopulation over the arguments that the
\* inputs above can produce
CachedArgs ==
    LET pops == PopSet \cup UNION {{s[j][2] : j \in DOMAIN s} : s \in SeriesCatalogue}
        gaps == {y2 - y1 : y1 \in YearSet, y2 \in YearSet}
                \cup UNION {{s[h][1] - s[j][1] : h \in DOMAIN s, j \in DOMAIN s} :
                            s \in SeriesCatalogue}
    IN  UNION {{<<a, b, n, k>> : a \in pops, b \in pops, k \in 0..(n - 1)} :
               n \in {g \in gaps : g > 0}}

PopulationCache ==
    [a \in CachedArgs |-> InterpolatedPopulation(a[1], a[2], a[3], a[4])]

Population(start_pop, end_pop, years_diff, year_offset) ==
    IF <<start_pop, end_pop, years_diff, year_offset>> \in CachedArgs
    THEN PopulationCache[<<start_pop, end_pop, years_diff, year_offset>>]
    ELSE InterpolatedPopulation(start_pop, end_pop, years_diff, year_offset)

(***************************************************************************)
(* Tables                                                                  *)
(***************************************************************************)
Row(metro, year, population) ==
    [Metro |-> metro, Year |-> year, Population |-> population]

\* pd.concat(frames, ignore_index=True)
RECURSIVE Concat(_)
Concat(frames) ==
    IF frames = <<>> THEN <<>> ELSE Head(frames) \o Concat(Tail(frames))

\* df['Metro'].unique(): the metros of df in order of first appearance
UniqueMetros(df) ==
    LET first == {j \in 1..Len(df) : \A h \in 1..(j - 1) : df[h].Metro # df[j].Metro}
        sel   == SelectSeq([j \in 1..Len(df) |-> j], LAMBDA j : j \in first)
    IN  [q \in 1..Len(sel) |-> df[sel[q]].Metro]

\* a sort of df by the order Before(r1, r2) on rows; rows that compare equal
\* keep their order (sort_values on several columns is a stable lexsort)
StableSort(df, Before(_, _)) ==
    LET n      == Len(df)
        \* <<r, j>>: r rows come before row j in the result
        ranked == {<<Cardinality({h \in 1..n : \/ Before(df[h], df[j])
                                               \/ /\ ~Before(df[j], df[h])
                                                  /\ h < j}), j>> : j \in 1..n}
    IN  [p \in 1..n |-> df[(CHOOSE q \in ranked : q[1] = p - 1)[2]]]

\* metro_data.sort_values('Year')
SortByYear(df) == StableSort(df, LAMBDA r1, r2 : r1.Year < r2.Year)

\* variant: ascending=[True, True]
SortYearPopulationAscending(df) ==
    StableSort(df, LAMBDA r1, r2 :
        \/ r1.Year < r2.Year
        \/ r1.Year = r2.Year /\ r1.Population < r2.Population)

\* df.sort_values(['Year', 'Population'], ascending=[True, False])
SortYearPopulation(df) ==
    StableSort(df, LAMBDA r1, r2 :
        \/ r1.Year < r2.Year
        \/ r1.Year = r2.Year /\ r1.Population > r2.Population)

(***************************************************************************)
(* interpolate_annual_data                                                 *)
(***************************************************************************)
\* variant: range(years_diff + 1), the end year emitted by the interval too
IntervalRowsInclusive(metro, metro_data, idx) ==
    [o \in 1..(metro_data[idx + 1].Year - metro_data[idx].Year + 1) |->
        Row(metro, metro_data[idx].Year + (o - 1),
            IF o - 1 = metro_data[idx + 1].Year - metro_data[idx].Year
            THEN metro_data[idx + 1].Population
            ELSE Population(metro_data[idx].Population, metro_data[idx + 1].Population,
                            metro_data[idx + 1].Year - metro_data[idx].Year, o - 1))]

\* the rows of the interval metro_data[idx] -> metro_data[idx + 1]: one row for
\* each year_offset in range(years_diff), the end year excluded
IntervalRows(metro, metro_data, idx) ==
    LET start_year == metro_data[idx].Year
        end_year   == metro_data[idx + 1].Year
        start_pop  == metro_data[idx].Population
        end_pop    == metro_data[idx + 1].Population
        years_diff == end_year - start_year
    IN  [o \in 1..years_diff |->
            Row(metro, start_year + (o - 1),
                Population(start_pop, end_pop, years_diff, o - 1))]

RECURSIVE IntervalsFrom(_, _, _)
IntervalsFrom(metro, metro_data, idx) ==
    IF idx > Len(metro_data) - 1 THEN <<>>
    ELSE IntervalRows(metro, metro_data, idx) \o IntervalsFrom(metro, metro_data, idx + 1)

\* the body of the loop over metros: the interpolated rows of one metro
InterpolateMetro(df, metro) ==
    LET metro_data == SortByYear(SelectSeq(df, LAMBDA r : r.Metro = metro))
    IN  Append(IntervalsFrom(metro, metro_data, 1),
               Row(metro, metro_data[Len(metro_data)].Year,
                          metro_data[Len(metro_data)].Population))

interpolate_annual_data(df) ==
    LET metros == UniqueMetros(df)
    IN  Concat([q \in 1..Len(metros) |-> InterpolateMetro(df, metros[q])])


(***************************************************************************)
(* Pages and their text.  A page is [status, table, trs]: whether the      *)
(* fetch succeeded, whether it has a table of class us-census-pop, and the *)
(* cells of each tr of that table.  A header cell is a string, a data cell *)
(* is its text as a sequence of characters.                                *)
(***************************************************************************)
DigitChars == <<"0", "1", "2", "3", "4", "5", "6", "7", "8", "9">>

IsDigit(c) == \E d \in 1..10 : DigitChars[d] = c

DigitValue(c) == (CHOOSE d \in 1..10 : DigitChars[d] = c) - 1

RECURSIVE Digits(_)
Digits(n) ==
    IF n < 10 THEN <<DigitChars[n + 1]>>
    ELSE Append(Digits(n \div 10), DigitChars[(n % 10) + 1])

\* 1500 as it stands in a census table: 1,500
RECURSIVE WithCommas(_)
WithCommas(n) ==
    IF n < 1000 THEN Digits(n)
    ELSE WithCommas(n \div 1000) \o <<",">>
         \o <<DigitChars[((n % 1000) \div 100) + 1],
              DigitChars[((n % 100) \div 10) + 1], DigitChars[(n % 10) + 1]>>

Header == <<"Census", "Pop.", "Note", "%">>
Caption == <<"Historical population">>
\* the one-character text U+2014, the placeholder of an empty cell
Dash == <<"emdash">>
Estimate == <<" ", "(", "e", "s", "t", ".", ")">>

\* the tr of one observation; the latest year of a page is an estimate
DataRow(obs, est) ==
    <<Digits(obs[1]) \o (IF est THEN Estimate ELSE <<>>), WithCommas(obs[2]), <<>>, Dash>>

CensusPage(series) ==
    [status |-> "ok", table |-> TRUE,
     trs |-> <<Caption, Header>>
             \o [j \in 1..Len(series) |->
                    DataRow(series[j], \A h \in 1..Len(series) : series[h][1] <= series[j][1])]]

\* a row without a year and a row without a population
JunkRows == << <<<<"n", "/", "a">>, <<"1", "2">>, <<>>, Dash>>,
               <<<<"1", "9", "9", "0">>, Dash, <<>>, Dash>> >>

DataPages ==
    {CensusPage(s) : s \in SeriesCatalogue}
    \cup {[status |-> "ok", table |-> TRUE,
           trs |-> CensusPage(s).trs \o JunkRows] : s \in SeriesCatalogue}

FetchErrorPage == [status |-> "error", table |-> FALSE, trs |-> <<>>]
NoTablePage == [status |-> "ok", table |-> FALSE, trs |-> <<>>]
NoRowsPage == [status |-> "ok", table |-> TRUE, trs |-> <<Caption>>]
NoColumnsPage ==
    [status |-> "ok", table |-> TRUE,
     trs |-> <<<<"Year", "Population">>, <<Digits(1990), Digits(7)>>>>]
UnparseablePage == [status |-> "ok", table |-> TRUE, trs |-> <<Header>> \o JunkRows]
HeaderOnlyPage == [status |-> "ok", table |-> TRUE, trs |-> <<Caption, Header>>]
RaggedPage ==
    [status |-> "ok", table |-> TRUE,
     trs |-> <<Header, <<Digits(1990), Digits(7), <<>>, Dash, Dash>>>>]

FailingPages ==
    {FetchErrorPage, NoTablePage, NoRowsPage, NoColumnsPage, UnparseablePage,
     HeaderOnlyPage, RaggedPage}

Pages == DataPages \cup FailingPages

(***************************************************************************)
(* clean_number, scrape_metro_data                                         *)
(***************************************************************************)
RECURSIVE ToInt(_)
ToInt(digits) ==
    IF digits = <<>> THEN 0
    ELSE 10 * ToInt(SubSeq(digits, 1, Len(digits) - 1)) + DigitValue(digits[Len(digits)])

clean_number(text) ==
    IF text = <<>> \/ text = Dash THEN None
    ELSE LET cleaned == SelectSeq(text, IsDigit)
         IN  IF cleaned = <<>> THEN None ELSE ToInt(cleaned)

\* df['Census'].str.extract(r'(\d{4})') and astype(int): the first run of
\* four digits, None when there is none
ExtractYear(text) ==
    LET starts == {j \in 1..(Len(text) - 3) : \A h \in j..(j + 3) : IsDigit(text[h])}
    IN  IF starts = {} THEN None
        ELSE LET j == CHOOSE x \in starts : \A z \in starts : x <= z
             IN  ToInt(SubSeq(text, j, j + 3))

\* the body of the try block: [raised, df, msg]
ScrapeBody(metro_name, page) ==
    IF page.status # "ok"
    THEN [raised |-> TRUE, df |-> <<>>, msg |-> "error"]
    ELSE IF ~page.table
    THEN [raised |-> FALSE, df |-> <<>>, msg |-> "no_table"]
    ELSE LET rows == SelectSeq(page.trs, LAMBDA cells : Len(cells) >= 2)
         IN  IF rows = <<>>
             THEN [raised |-> FALSE, df |-> <<>>, msg |-> "no_rows"]
             ELSE LET header == rows[1]
                      data   == Tail(rows)
                  IN  IF \E j \in 1..Len(data) : Len(data[j]) > Len(header)
                      THEN [raised |-> TRUE, df |-> <<>>, msg |-> "error"]
                      ELSE IF /\ \E c \in 1..Len(header) : header[c] = "Census"
                              /\ \E c \in 1..Len(header) : header[c] = "Pop."
                      THEN LET cy     == CHOOSE c \in 1..Len(header) : header[c] = "Census"
                               cp     == CHOOSE c \in 1..Len(header) : header[c] = "Pop."
                               parsed == [j \in 1..Len(data) |->
                                            Row(metro_name, ExtractYear(data[j][cy]),
                                                clean_number(data[j][cp]))]
                               kept   == SelectSeq(parsed, LAMBDA r :
                                            r.Year # None /\ r.Population # None)
                           IN  [raised |-> FALSE, df |-> kept, msg |-> "scraped"]
                      ELSE [raised |-> FALSE, df |-> <<>>, msg |-> "no_columns"]

\* variant: no except clause, the exception leaves the function
scrape_metro_dataUncaught(metro_name, page) == ScrapeBody(metro_name, page)

\* except Exception: return pd.DataFrame()
scrape_metro_data(metro_name, page) ==
    LET body == ScrapeBody(metro_name, page)
    IN  IF body.raised THEN [raised |-> FALSE, df |-> <<>>, msg |-> "error"] ELSE body


(***************************************************************************)
(* add_2024_data.py                                                        *)
(***************************************************************************)
\* the rows of one metro for 2021..2024: range(1, 5)
NewRowsOf(metro, start_pop, end_pop) ==
    [year_offset \in 1..IncrementYears |->
        Row(metro, BaseYear + year_offset,
            IF BaseYear + year_offset = FinalYear
            THEN end_pop
            ELSE InterpolatedPopulation(start_pop, end_pop, IncrementYears, year_offset))]

\* the rows appended by the loop over pop_2020.keys(), in append order
new_rows ==
    [p \in 1..(Len(pop_2020) * IncrementYears) |->
        LET q == ((p - 1) \div IncrementYears) + 1
        IN  NewRowsOf(pop_2020[q][1], pop_2020[q][2],
                      pop_2024[pop_2020[q][1]])[((p - 1) % IncrementYears) + 1]] \o <<>>

\* variant: df[df['Year'] < 2020]
KeepBeforeCutoff(df) == SelectSeq(df, LAMBDA r : r.Year < CutoffYear)

\* variant: the filter left out
KeepAll(df) == df

\* df[df['Year'] <= 2020]
KeepUpToCutoff(df) == SelectSeq(df, LAMBDA r : r.Year <= CutoffYear)

\* variant: the new rows appended to the whole table
add_2024_dataAppendOnly(df) == SortYearPopulation(df \o new_rows)

\* the table the script writes back, given the table it read
add_2024_data(df) == SortYearPopulation(KeepUpToCutoff(df) \o new_rows)

(***************************************************************************)
(* State                                                                   *)
(***************************************************************************)
VARIABLES
    pc,           \* position in main(), "done" or "nodata" once it returned
    i,            \* index into METROS of the next metro to scrape
    all_data,     \* main's list of the non-empty frames scraped so far
    combined_df,  \* main's combined table
    log,          \* the last message printed
    csv,          \* the rows of metro_population_data.csv
    csv_exists,   \* whether the file has been written
    runs,         \* completed runs of add_2024_data.py
    attempts,     \* history: the metro names passed to scrape_metro_data
    results,      \* history: the frame each call of scrape_metro_data returned
    last_page,    \* history: the page of the last call of scrape_metro_data
    census_df,    \* history: the combined census rows before interpolation
    csv_before,   \* history: the file before the first run of add_2024_data.py
    sink_calls    \* history: number of to_csv calls

vars == <<pc, i, all_data, combined_df, log, csv, csv_exists, runs,
          attempts, results, last_page, census_df, csv_before, sink_calls>>

Init ==
    /\ pc = "scrape"
    /\ i = 1
    /\ all_data = <<>>
    /\ combined_df = <<>>
    /\ log = "start"
    /\ csv = <<>>
    /\ csv_exists = FALSE
    /\ runs = 0
    /\ attempts = <<>>
    /\ results = <<>>
    /\ last_page = NoTablePage
    /\ census_df = <<>>
    /\ csv_before = <<>>
    /\ sink_calls = 0

(***************************************************************************)
(* main()                                                                  *)
(***************************************************************************)
\* one iteration of the loop over METROS; an exception that leaves
\* scrape_metro_data ends main
Scrape ==
    /\ pc = "scrape"
    /\ \E page \in Pages :
         LET res == scrape_metro_data(METROS[i], page)
         IN  /\ last_page' = page
             /\ attempts' = Append(attempts, METROS[i])
             /\ results' = Append(results, res.df)
             /\ log' = res.msg
             /\ all_data' = IF ~res.raised /\ res.df # <<>>
                            THEN Append(all_data, res.df) ELSE all_data
             /\ i' = IF res.raised THEN i ELSE i + 1
             /\ pc' = IF res.raised THEN "crashed"
                      ELSE IF i < Len(METROS) THEN "scrape" ELSE "check"
    /\ UNCHANGED <<combined_df, csv, csv_exists, runs, census_df, csv_before, sink_calls>>

\* variant: no early return, an empty table goes on to be saved
NoDataSavesEmpty ==
    /\ pc = "check"
    /\ all_data = <<>>
    /\ pc' = "save"
    /\ log' = "no_data"
    /\ UNCHANGED <<i, all_data, combined_df, csv, csv_exists, runs, attempts,
                   results, last_page, census_df, csv_before, sink_calls>>

\* if not all_data: print, return
NoData ==
    /\ pc = "check"
    /\ all_data = <<>>
    /\ pc' = "nodata"
    /\ log' = "no_data"
    /\ UNCHANGED <<i, all_data, combined_df, csv, csv_exists, runs, attempts,
                   results, last_page, census_df, csv_before, sink_calls>>

\* combined_df = pd.concat(all_data, ignore_index=True)
Combine ==
    /\ pc = "check"
    /\ all_data # <<>>
    /\ combined_df' = Concat(all_data)
    /\ census_df' = Concat(all_data)
    /\ log' = "combined"
    /\ pc' = "interpolate"
    /\ UNCHANGED <<i, all_data, csv, csv_exists, runs, attempts, results,
                   last_page, csv_before, sink_calls>>

\* if INTERPOLATE: combined_df = interpolate_annual_data(combined_df)
Interpolate ==
    /\ pc = "interpolate"
    /\ combined_df' = IF INTERPOLATE THEN interpolate_annual_data(combined_df)
                      ELSE combined_df
    /\ log' = "interpolated"
    /\ pc' = "sort"
    /\ UNCHANGED <<i, all_data, csv, csv_exists, runs, attempts, results,
                   last_page, census_df, csv_before, sink_calls>>

\* combined_df = combined_df.sort_values(['Year', 'Population'], ...)
Sort ==
    /\ pc = "sort"
    /\ combined_df' = SortYearPopulation(combined_df)
    /\ pc' = "filter"
    /\ UNCHANGED <<i, all_data, log, csv, csv_exists, runs, attempts, results,
                   last_page, census_df, csv_before, sink_calls>>

\* variant: combined_df['Year'] > 1980
FilterStrict ==
    /\ pc = "filter"
    /\ combined_df' = SelectSeq(combined_df, LAMBDA r : r.Year > MinYear)
    /\ pc' = "save"
    /\ UNCHANGED <<i, all_data, log, csv, csv_exists, runs, attempts, results,
                   last_page, census_df, csv_before, sink_calls>>

\* combined_df = combined_df[combined_df['Year'] >= 1980]
Filter ==
    /\ pc = "filter"
    /\ combined_df' = SelectSeq(combined_df, LAMBDA r : r.Year >= MinYear)
    /\ pc' = "save"
    /\ UNCHANGED <<i, all_data, log, csv, csv_exists, runs, attempts, results,
                   last_page, census_df, csv_before, sink_calls>>

\* combined_df.to_csv(OUTPUT_FILE, index=False)
Save ==
    /\ pc = "save"
    /\ csv' = combined_df
    /\ csv_exists' = TRUE
    /\ csv_before' = combined_df
    /\ sink_calls' = sink_calls + 1
    /\ log' = "saved"
    /\ pc' = "done"
    /\ UNCHANGED <<i, all_data, combined_df, runs, attempts, results, last_page,
                   census_df>>

\* one run of add_2024_data.py on the file that main has written
Add2024 ==
    /\ pc = "done"
    /\ csv_exists
    /\ runs < MaxRuns
    /\ csv' = add_2024_data(csv)
    /\ runs' = runs + 1
    /\ sink_calls' = sink_calls + 1
    /\ log' = "added"
    /\ UNCHANGED <<pc, i, all_data, combined_df, csv_exists, attempts, results,
                   last_page, census_df, csv_before>>

Next ==
    \/ Scrape
    \/ NoData
    \/ Combine
    \/ Interpolate
    \/ Sort
    \/ Filter
    \/ Save
    \/ Add2024

Spec == Init /\ [][Next]_vars

(***************************************************************************)
(* interpolate_annual_data on every bounded census frame                   *)
(***************************************************************************)
RECURSIVE SeqsUpTo(_, _)
SeqsUpTo(S, n) ==
    IF n = 0 THEN {<<>>}
    ELSE LET shorter == SeqsUpTo(S, n - 1)
         IN  shorter \cup {Append(q, x) : q \in {z \in shorter : Len(z) = n - 1}, x \in S}

NoRepeatedYear(df) ==
    \A j \in 1..Len(df) : \A h \in 1..Len(df) :
        (df[j].Metro = df[h].Metro /\ df[j].Year = df[h].Year) => j = h

\* the census frames one metro can contribute: its years in any order, no
\* year twice, or nothing at all
SeriesOf(metro) ==
    {df \in SeqsUpTo({Row(metro, y, p) : y \in YearSet, p \in PopSet}, MaxObs) :
        NoRepeatedYear(df)}

\* what the scrape loop can leave behind: a frame for each of the first two
\* metros, nothing for the others, at most MaxObs rows in all
FrameResults ==
    {<<a, h>> \o [q \in 1..(NumMetros - 2) |-> <<>>] :
        a \in SeriesOf(METROS[1]), h \in SeriesOf(METROS[2])}

InitInterp ==
    /\ pc = "interpolate"
    /\ i = Len(METROS) + 1
    /\ results \in {r \in FrameResults : Len(r[1]) + Len(r[2]) \in 1..MaxObs}
    /\ all_data = SelectSeq(results, LAMBDA df : df # <<>>)
    /\ combined_df = Concat(all_data)
    /\ census_df = combined_df
    /\ log = "combined"
    /\ csv = <<>>
    /\ csv_exists = FALSE
    /\ runs = 0
    /\ attempts = METROS
    /\ last_page = NoTablePage
    /\ csv_before = <<>>
    /\ sink_calls = 0

SpecInterp == InitInterp /\ [][Interpolate]_vars

(***************************************************************************)
(* add_2024_data.py on every bounded existing table                        *)
(***************************************************************************)
ExistingTables ==
    SeqsUpTo({Row(m, y, p) : m \in MergeMetros, y \in MergeYears, p \in MergePops}, MaxRows)

InitMerge ==
    /\ pc = "done"
    /\ i = Len(METROS) + 1
    /\ csv \in ExistingTables
    /\ csv_before = csv
    /\ csv_exists = TRUE
    /\ combined_df = csv
    /\ census_df = <<>>
    /\ all_data = <<>>
    /\ log = "saved"
    /\ runs = 0
    /\ attempts = METROS
    /\ results = <<>>
    /\ last_page = NoTablePage
    /\ sink_calls = 1

SpecMerge == InitMerge /\ [][Add2024]_vars


(***************************************************************************)
(* Properties                                                              *)
(***************************************************************************)
RowsOf(df, metro) == SelectSeq(df, LAMBDA r : r.Metro = metro)

MetrosOf(df) == {df[j].Metro : j \in 1..Len(df)}

YearsOf(df, metro) == {df[j].Year : j \in {h \in 1..Len(df) : df[h].Metro = metro}}

MinOf(S) == CHOOSE y \in S : \A z \in S : y <= z

MaxOf(S) == CHOOSE y \in S : \A z \in S : y >= z

\* how many times the row r occurs in df
Count(df, r) == Cardinality({j \in 1..Len(df) : df[j] = r})

\* how many rows df has for the metro and the year
CountAt(df, metro, year) ==
    Cardinality({j \in 1..Len(df) : df[j].Metro = metro /\ df[j].Year = year})

NoDuplicateKey(df) ==
    \A j \in 1..Len(df) : \A h \in 1..Len(df) :
        (df[j].Metro = df[h].Metro /\ df[j].Year = df[h].Year) => j = h

\* floor(popA + (popB - popA) * offset / years), in exact integer arithmetic
FloorInterpolation(popA, popB, years, offset) ==
    (popA * years + (popB - popA) * offset) \div years

\* censuses A, B of the metro are consecutive: no census year in between
Consecutive(df, A, B) ==
    /\ A.Metro = B.Metro
    /\ A.Year < B.Year
    /\ \A j \in 1..Len(df) :
          df[j].Metro = A.Metro => ~(A.Year < df[j].Year /\ df[j].Year < B.Year)

Interpolated == pc = "sort"

\* C1: after interpolate_annual_data, the rows of every metro are exactly one
\* row per year from its first to its last census year, in ascending order:
\* last_year - first_year + 1 rows, a single row for a single census
C1_OneRowPerYear ==
    Interpolated =>
        \A m \in MetrosOf(census_df) :
            LET out   == RowsOf(combined_df, m)
                first == MinOf(YearsOf(census_df, m))
                last  == MaxOf(YearsOf(census_df, m))
            IN  /\ Len(out) = last - first + 1
                /\ \A p \in 1..Len(out) : out[p].Year = first + (p - 1)

C1_Witness ==
    /\ Interpolated
    /\ \E m \in MetrosOf(census_df) :
          /\ Cardinality(YearsOf(census_df, m)) = 3
          /\ Len(RowsOf(combined_df, m)) = 45

\* C2: every row emitted for a year y with yearA <= y < yearB between two
\* consecutive censuses carries floor(popA + (popB - popA) * (y - yearA) /
\* (yearB - yearA)), and so do the 2021..2023 rows of add_2024_data.py
C2_FloorOfLinearInterpolation ==
    /\ Interpolated =>
          \A a \in 1..Len(census_df) : \A b \in 1..Len(census_df) :
              Consecutive(census_df, census_df[a], census_df[b]) =>
                  \A j \in 1..Len(combined_df) :
                      (/\ combined_df[j].Metro = census_df[a].Metro
                       /\ census_df[a].Year <= combined_df[j].Year
                       /\ combined_df[j].Year < census_df[b].Year)
                      => combined_df[j].Population =
                            FloorInterpolation(census_df[a].Population,
                                               census_df[b].Population,
                                               census_df[b].Year - census_df[a].Year,
                                               combined_df[j].Year - census_df[a].Year)
    /\ \A q \in 1..Len(pop_2020) : \A j \in 1..Len(new_rows) :
          (new_rows[j].Metro = pop_2020[q][1] /\ new_rows[j].Year < FinalYear)
          => new_rows[j].Population =
                FloorInterpolation(pop_2020[q][2], pop_2024[pop_2020[q][1]],
                                   FinalYear - BaseYear, new_rows[j].Year - BaseYear)

\* C3: every census of the input is reproduced by exactly one row with the
\* recorded population, the first and the last census year included, and the
\* 2024 row of every metro of add_2024_data.py carries pop_2024
C3_CensusYearsExact ==
    /\ Interpolated =>
          \A a \in 1..Len(census_df) :
              /\ Count(combined_df, census_df[a]) = 1
              /\ CountAt(combined_df, census_df[a].Metro, census_df[a].Year) = 1
    /\ \A q \in 1..Len(pop_2020) :
          /\ Count(new_rows, Row(pop_2020[q][1], FinalYear, pop_2024[pop_2020[q][1]])) = 1
          /\ CountAt(new_rows, pop_2020[q][1], FinalYear) = 1

C3_Witness ==
    /\ Interpolated
    /\ \E m \in MetrosOf(census_df) :
          /\ YearsOf(census_df, m) = YearSet
          /\ \E j \in 1..Len(census_df) : \E h \in 1..Len(census_df) :
                /\ census_df[j].Metro = m /\ census_df[h].Metro = m
                /\ census_df[j].Population # census_df[h].Population


RowsIn(df) == {df[j] : j \in 1..Len(df)}

Merged == runs >= 1

\* C4: the table written by add_2024_data.py holds every row of the table it
\* read with Year <= 2020, as often as it was there and unchanged, and every
\* new row, and nothing else: no row of the old table with Year > 2020
C4_MergeReplacesAfterCutoff ==
    Merged =>
        /\ \A r \in RowsIn(csv) \cup RowsIn(csv_before) \cup RowsIn(new_rows) :
              Count(csv, r) =
                  (IF r.Year <= CutoffYear THEN Count(csv_before, r) ELSE 0)
                  + Count(new_rows, r)
        /\ \A j \in 1..Len(new_rows) : new_rows[j].Year > CutoffYear

C4_Witness ==
    /\ Merged
    /\ \E r \in RowsIn(csv_before) :
          r.Metro = "Atlanta" /\ r.Year = 2021 /\ r \notin RowsIn(csv)
    /\ \E r \in RowsIn(csv_before) :
          r.Metro = "Boston" /\ r.Year = CutoffYear /\ r \in RowsIn(csv)
    /\ \E r \in RowsIn(csv_before) : r.Year < CutoffYear

\* C5: no two rows of the file have the same metro and year, after main()
\* and after every run of add_2024_data.py on the file main() wrote
C5_NoDuplicateMetroYear == csv_exists => NoDuplicateKey(csv)

C5_Witness ==
    /\ csv_exists
    /\ Merged
    /\ Cardinality(MetrosOf(census_df)) >= 2
    /\ \E r \in RowsIn(csv_before) : r.Year > CutoffYear
    /\ \E r \in RowsIn(csv_before) : r.Year <= CutoffYear

SortedByYearPopulation(df) ==
    \A j \in 1..(Len(df) - 1) :
        \/ df[j].Year < df[j + 1].Year
        \/ df[j].Year = df[j + 1].Year /\ df[j].Population >= df[j + 1].Population

NonEmpty(frames) == SelectSeq(frames, LAMBDA df : df # <<>>)

\* C7: a page that fails (fetch error, no table, no rows, no columns, no
\* parseable row, exception while parsing) gives an empty frame and no
\* exception leaves scrape_metro_data; main() calls it once per metro, in
\* list order, whatever fails, and goes on with exactly the frames that are
\* not empty
C7_FailuresContained ==
    /\ pc # "crashed"
    /\ attempts = SubSeq(METROS, 1, i - 1)
    /\ Len(results) = Len(attempts)
    /\ pc # "scrape" => attempts = METROS
    /\ (results # <<>> /\ last_page \in FailingPages) => results[Len(results)] = <<>>
    /\ \A q \in 1..Len(results) : \A j \in 1..Len(results[q]) :
          results[q][j].Metro = METROS[q]
    /\ all_data = NonEmpty(results)
    /\ pc \in {"interpolate", "sort", "filter", "save", "done"}
          => census_df = Concat(NonEmpty(results))

C7_Witness ==
    /\ pc = "done"
    /\ results[1] = <<>>
    /\ results[2] # <<>>
    /\ last_page = RaggedPage
    /\ Len(census_df) > 0

AllFailed == Len(results) = Len(METROS) /\ \A q \in 1..Len(results) : results[q] = <<>>

\* C8: when no metro gave a frame, main() prints that no data was scraped and
\* returns: nothing is combined, interpolated, sorted, filtered or written
C8_NoDataNoSink ==
    AllFailed =>
        /\ pc \in {"check", "nodata"}
        /\ pc = "nodata" => log = "no_data"
        /\ sink_calls = 0
        /\ ~csv_exists
        /\ combined_df = <<>>

C8_Witness == AllFailed /\ pc = "nodata" /\ last_page = FetchErrorPage

C10_MergeIdempotent ==
    /\ [][Merged => csv' = csv]_vars
    /\ [](Merged =>
            /\ \A q \in 1..Len(pop_2020) : \A y \in (BaseYear + 1)..FinalYear :
                  CountAt(csv, pop_2020[q][1], y) = 1
            /\ \A r \in RowsIn(csv) \cup RowsIn(csv_before) :
                  r.Year <= CutoffYear => Count(csv, r) = Count(csv_before, r)
            /\ SortedByYearPopulation(csv))

C10_Witness ==
    /\ runs = 2
    /\ ~SortedByYearPopulation(csv_before)
    /\ \E r \in RowsIn(csv_before) : r.Year > CutoffYear
    /\ \E j \in 1..Len(csv_before) : \E h \in 1..Len(csv_before) :
          /\ j < h
          /\ csv_before[j].Year = csv_before[h].Year
          /\ csv_before[j].Population = csv_before[h].Population
          /\ csv_before[j].Metro # csv_before[h].Metro

====
